---------------------------- MODULE Spec2Model ----------------------------
(***************************************************************************)
(* Model of the sprinkler controller (src/sprinkler_controller.py) and of  *)
(* the REST handlers that drive it (src/api_server.py).                    *)
(*                                                                         *)
(* One SprinklerController object is shared by the scheduler loop          *)
(* (run_controller / check_and_run), by the API handlers, which run one at *)
(* a time on the server's event loop, and by the run_zone executions, each *)
(* of which is a thread of its own.                                        *)
(***************************************************************************)
EXTENDS Integers, Sequences, FiniteSets, Bags, TLC

(***************************************************************************)
(* Bounds of the model.                                                    *)
(***************************************************************************)
\* run_zone executions dispatched in one behaviour
MaxRuns == 2
\* Zone objects constructed in one behaviour (the two of the default
\* configuration included)
MaxZoneObjs == 3
\* minutes the clock advances after the controller is constructed
MaxMinutes == 1

(***************************************************************************)
(* Wall clock.  An instant is a minute of the week, counted from           *)
(* Monday 00:00 (datetime.weekday(): 0 = Monday).                          *)
(***************************************************************************)
MinutesPerDay == 24 * 60
MinutesPerWeek == 7 * MinutesPerDay

At(wd, h, m) == wd * MinutesPerDay + h * 60 + m

weekday(t) == (t \div MinutesPerDay) % 7
hour(t) == (t % MinutesPerDay) \div 60
minute(t) == t % 60

\* instants at which the controller is constructed
StartInstants == {At(0, 5, 59), At(6, 23, 59)}

(***************************************************************************)
(* "HH:MM" texts are sequences of one-character strings.                   *)
(***************************************************************************)
Digits == <<"0", "1", "2", "3", "4", "5", "6", "7", "8", "9">>

IsDigit(c) == \E i \in 1..10 : Digits[i] = c

DigitVal(c) == (CHOOSE i \in 1..10 : Digits[i] = c) - 1

\* value of a text of one or two digits
NumVal(s) ==
    IF Len(s) = 1 THEN DigitVal(s[1]) ELSE 10 * DigitVal(s[1]) + DigitVal(s[2])

IsNum(s) == Len(s) \in {1, 2} /\ \A i \in 1..Len(s) : IsDigit(s[i])

\* the outcome of a constructor or parser that raises ValueError
ValueError == [error |-> "ValueError"]

\* datetime.strptime(text, "%H:%M").time(): a time of day, or ValueError
strptime(text) ==
    LET colons == {i \in 1..Len(text) : text[i] = ":"}
    IN  IF Cardinality(colons) # 1 THEN ValueError
        ELSE LET c == CHOOSE i \in colons : TRUE
                 hh == SubSeq(text, 1, c - 1)
                 mm == SubSeq(text, c + 1, Len(text))
             IN  IF IsNum(hh) /\ IsNum(mm) /\ NumVal(hh) <= 23 /\ NumVal(mm) <= 59
                 THEN [hour |-> NumVal(hh), minute |-> NumVal(mm)]
                 ELSE ValueError

\* time.strftime("%H:%M"): both fields zero-padded to two digits
strftime(t) ==
    << Digits[(t.hour \div 10) + 1], Digits[(t.hour % 10) + 1], ":",
       Digits[(t.minute \div 10) + 1], Digits[(t.minute % 10) + 1] >>

(***************************************************************************)
(* SprinklerSchedule                                                       *)
(***************************************************************************)
\* SprinklerSchedule.__init__: the schedule object, or ValueError when the
\* start time does not parse; days and duration are stored as given
SprinklerSchedule(days, start_time, duration_minutes, enabled) ==
    IF strptime(start_time) = ValueError THEN ValueError
    ELSE [days |-> days, start_time |-> strptime(start_time),
          duration_minutes |-> duration_minutes, enabled |-> enabled]

InList(x, list) == \E i \in 1..Len(list) : list[i] = x

\* should_run_today, with t the instant datetime.now() returns in it
should_run_today(schedule, t) == InList(weekday(t), schedule.days)

\* is_start_time comparing the hour alone
is_start_time_hour_only(schedule, t) == hour(t) = schedule.start_time.hour

\* is_start_time, with t the instant datetime.now() returns in it
is_start_time(schedule, t) ==
    LET now_minutes == hour(t) * 60 + minute(t)
        start_minutes == schedule.start_time.hour * 60 + schedule.start_time.minute
    IN  now_minutes = start_minutes

\* a to_dict that leaves out the `enabled` switch
schedule_to_dict_without_enabled(schedule) ==
    [days |-> schedule.days, start_time |-> strftime(schedule.start_time),
     duration_minutes |-> schedule.duration_minutes]

\* SprinklerSchedule.to_dict
schedule_to_dict(schedule) ==
    [days |-> schedule.days, start_time |-> strftime(schedule.start_time),
     duration_minutes |-> schedule.duration_minutes, enabled |-> schedule.enabled]

(***************************************************************************)
(* State of the controller, of the driver and of the threads.              *)
(***************************************************************************)
VARIABLES
    zones,                    \* self.zones: the list of Zone objects (their ids)
    zobj,                     \* the Zone objects constructed so far, by id
    stop_events,              \* self.stop_events: zone name -> Event (its id)
    event_flag,               \* the threading.Event objects: id -> is set
    global_schedule_enabled,  \* self.global_schedule_enabled
    is_running,               \* self.is_running
    gpio,                     \* driver: channels set up as outputs -> level
    store,                    \* content of the schedule file
    runs,                     \* the run_zone executions in progress (a bag)
    dispatched,               \* number of run_zone executions dispatched so far
    now,                      \* the wall clock
    next_check,               \* scheduler loop: earliest instant of its next check
    api,                      \* the handler the event loop is executing
    shutdown,                 \* cleanup() has returned
    matches_call,             \* a call of should_run_today() and is_start_time()
    response,                 \* the last response of the API: handler and status
    faults                    \* what fails around the program: disk, driver, threads

vars == << zones, zobj, stop_events, event_flag, global_schedule_enabled,
           is_running, gpio, store, runs, dispatched, now, next_check, api,
           shutdown, matches_call, response, faults >>

\* every variable but the response
state == << zones, zobj, stop_events, event_flag, global_schedule_enabled,
            is_running, gpio, store, runs, dispatched, now, next_check, api,
            shutdown, matches_call, faults >>

LOW == "LOW"
HIGH == "HIGH"

ZoneNames == {"Front Yard", "Back Yard"}
Pins == {17, 27}

\* schedules sent with create and update requests: [days, start_time, minutes]
ScheduleInputs ==
    { [days |-> <<6>>, start_time |-> <<"0", "0", ":", "0", "0">>,
       duration_minutes |-> 1, enabled |-> TRUE] }

\* durations sent with manual run requests
RunInputs == {1}

Range(f) == {f[x] : x \in DOMAIN f}

\* the Zone object named `name` that a scan of self.zones finds first
FindZone(name) ==
    IF \E i \in 1..Len(zones) : zobj[zones[i]].name = name
    THEN zones[CHOOSE i \in 1..Len(zones) :
                 /\ zobj[zones[i]].name = name
                 /\ \A j \in 1..(i - 1) : zobj[zones[j]].name # name]
    ELSE 0

\* Zone.to_dict
zone_to_dict(z) ==
    [name |-> z.name, gpio_pin |-> z.gpio_pin, schedule |-> schedule_to_dict(z.schedule)]

\* what save_schedule writes for a zone list and a global flag
SavedData(zs, objs, flag) ==
    [global_schedule_enabled |-> flag,
     zones |-> [i \in 1..Len(zs) |-> zone_to_dict(objs[zs[i]])]]

\* the schedule file is missing; the file holds no JSON document
NoFile == [error |-> "FileNotFoundError"]
NotJson == [error |-> "JSONDecodeError"]

\* save_schedule: open(self.schedule_file, 'w') raises on a read-only disk and
\* leaves the file as it is; on a full disk it truncates the file and
\* json.dump raises; the exception is logged and save_schedule returns
save_schedule(zs, objs, flag) ==
    store' = IF "disk_readonly" \in faults THEN store
             ELSE IF "disk_full" \in faults THEN NotJson
             ELSE SavedData(zs, objs, flag)

\* Zone.__init__: the object; GPIO.setup and GPIO.output(LOW) act on the driver
Zone(name, gpio_pin, schedule) ==
    [name |-> name, gpio_pin |-> gpio_pin, schedule |-> schedule, active |-> FALSE]

\* driver after GPIO.setup(pin, GPIO.OUT); GPIO.output(pin, GPIO.LOW)
GpioSetupLow(g, pin) == [p \in DOMAIN g \cup {pin} |-> IF p = pin THEN LOW ELSE g[p]]

\* an output channel is energized
Energized(pin) == pin \in DOMAIN gpio /\ gpio[pin] = HIGH

(***************************************************************************)
(* Construction: SprinklerController.__init__ with no schedule file, which *)
(* is load_schedule's FileNotFoundError branch, create_default_schedule.   *)
(***************************************************************************)
DefaultSchedule1 ==
    SprinklerSchedule(<<0, 2, 4>>, <<"0", "6", ":", "0", "0">>, 20, TRUE)
DefaultSchedule2 ==
    SprinklerSchedule(<<1, 3, 5>>, <<"0", "6", ":", "3", "0">>, 15, TRUE)

\* create_default_schedule
DefaultZones ==
    << Zone("Front Yard", 17, DefaultSchedule1), Zone("Back Yard", 27, DefaultSchedule2) >>

NoRequest == [op |-> "none", name |-> ""]
NoResponse == [op |-> "none", status |-> 0]

\* the controller as __init__ leaves it
Constructed ==
    /\ zones = <<1, 2>>
    /\ zobj = DefaultZones
    /\ stop_events = [n \in {"Front Yard", "Back Yard"} |->
                         IF n = "Front Yard" THEN 1 ELSE 2]
    /\ event_flag = <<FALSE, FALSE>>
    /\ global_schedule_enabled = TRUE
    /\ is_running = FALSE
    /\ gpio = [p \in {17, 27} |-> LOW]
    /\ store = SavedData(<<1, 2>>, DefaultZones, TRUE)
    /\ runs = EmptyBag
    /\ dispatched = 0
    /\ next_check = 0
    /\ api = NoRequest
    /\ shutdown = FALSE
    /\ response = NoResponse
    /\ faults = {}

NoCall == [schedule |-> DefaultSchedule1, t |-> 0, evaluated |-> FALSE, result |-> FALSE]

\* the service starts just before Monday 06:00, the first default start time
Init == Constructed /\ now = At(0, 5, 59) /\ matches_call = NoCall

\* the service starts just before a start time or just before midnight
InitSchedule == Constructed /\ now \in StartInstants /\ matches_call = NoCall

(***************************************************************************)
(* Objects no reference leads to any more: a Zone that is neither in       *)
(* self.zones nor the argument of an execution in progress, an Event that  *)
(* is neither in self.stop_events nor waited on.  The program cannot       *)
(* observe them; the model keeps one value for each.                       *)
(***************************************************************************)
Collected == [name |-> "", gpio_pin |-> 0, active |-> FALSE]

CollectZones(objs, zs, rs) ==
    [z \in DOMAIN objs |->
        IF z \in Range(zs) \/ \E r \in DOMAIN rs : r.zone = z
        THEN objs[z] ELSE Collected]

CollectEvents(flags, events, rs) ==
    [e \in DOMAIN flags |->
        IF e \in Range(events) \/ \E r \in DOMAIN rs : r.ev = e
        THEN flags[e] ELSE FALSE]

(***************************************************************************)
(* Construction with a schedule file: load_schedule.                       *)
(***************************************************************************)
\* dict.get(key, default)
DictGet(d, key, default) == IF key \in DOMAIN d THEN d[key] ELSE default

\* json.load returns a dict
Parses(file) == "error" \notin DOMAIN file

\* lines 123-135 raise nothing for this entry of data['zones']
EntryLoads(zone_data) ==
    /\ {"name", "gpio_pin", "schedule"} \subseteq DOMAIN zone_data
    /\ {"days", "start_time", "duration_minutes"} \subseteq DOMAIN zone_data.schedule
    /\ strptime(zone_data.schedule.start_time) # ValueError

\* the Zone that lines 123-133 build from an entry
LoadZone(zone_data) ==
    Zone(zone_data.name, zone_data.gpio_pin,
         SprinklerSchedule(zone_data.schedule.days, zone_data.schedule.start_time,
                           zone_data.schedule.duration_minutes,
                           DictGet(zone_data.schedule, "enabled", TRUE)))

\* the entries the loop of line 122 handles before one raises
LoadedCount(data) ==
    IF "zones" \notin DOMAIN data THEN 0
    ELSE LET bad == {i \in 1..Len(data.zones) : ~EntryLoads(data.zones[i])}
         IN  IF bad = {} THEN Len(data.zones)
             ELSE (CHOOSE i \in bad : \A j \in bad : i <= j) - 1

\* the try block of load_schedule ends without an exception
LoadsCompletely(file) ==
    /\ Parses(file)
    /\ "zones" \in DOMAIN file
    /\ LoadedCount(file) = Len(file.zones)

\* self.stop_events after stop_events[zone.name] = Event() for each object
\* of objs in turn, the Event of the i-th having id i
EventsOf(objs) ==
    [n \in {objs[i].name : i \in 1..Len(objs)} |->
        CHOOSE i \in 1..Len(objs) :
            /\ objs[i].name = n
            /\ \A j \in (i + 1)..Len(objs) : objs[j].name # n]

\* load_schedule: the controller's fields when __init__ returns.  An exception
\* in the try block leads to create_default_schedule, which replaces
\* self.zones and adds the Events of the two default zones.
load_schedule(file) ==
    LET k == IF Parses(file) THEN LoadedCount(file) ELSE 0
        loaded == [i \in 1..k |-> LoadZone(file.zones[i])]
        flag == IF Parses(file) THEN DictGet(file, "global_schedule_enabled", TRUE)
                ELSE TRUE
    IN  IF LoadsCompletely(file)
        THEN [zones |-> [i \in 1..k |-> i], zobj |-> loaded,
              stop_events |-> EventsOf(loaded),
              global_schedule_enabled |-> flag,
              pins |-> {loaded[i].gpio_pin : i \in 1..k}, default |-> FALSE]
        ELSE [zones |-> <<k + 1, k + 2>>,
              zobj |-> [i \in 1..k |-> Collected] \o DefaultZones,
              stop_events |-> EventsOf(loaded \o DefaultZones),
              global_schedule_enabled |-> flag,
              pins |-> {loaded[i].gpio_pin : i \in 1..k} \cup {17, 27},
              default |-> TRUE]

(***************************************************************************)
(* threading.Event                                                         *)
(***************************************************************************)
\* the Event a lookup self.stop_events[zone.name] yields for Zone object z,
\* 0 when the lookup raises KeyError
SignalOf(z) ==
    IF zobj[z].name \in DOMAIN stop_events THEN stop_events[zobj[z].name] ELSE 0

\* Event.set() on every Event of E: the flags afterwards
EventSetFlags(flags, E) == [e \in DOMAIN flags |-> IF e \in E THEN TRUE ELSE flags[e]]

\* Event.set() on every Event of E, seen by one execution: blocked in wait()
\* on one of them, it returns from wait().  `signalled` records, for an
\* execution that has activated its zone and not yet entered wait(), that the
\* signal of its zone was set.
Notify(r, E) ==
    IF r.pc = "waiting" /\ r.ev \in E
    THEN [r EXCEPT !.pc = "stop", !.ev = 0, !.deadline = 0]
    ELSE IF r.pc = "wait_enter" /\ r.zone \in Range(zones) /\ SignalOf(r.zone) \in E
    THEN [r EXCEPT !.signalled = TRUE]
    ELSE r

\* Event.set() on every Event of E: the executions afterwards
EventSetRuns(rs, E) == LET N(r) == Notify(r, E) IN BagOfAll(N, rs)

(***************************************************************************)
(* run_zone: one execution per dispatch, a thread of its own.              *)
(*   start       about to call start_zone              (line 310)          *)
(*   wait_enter  about to look the Event up and wait   (line 313)          *)
(*   waiting     blocked in Event.wait(timeout)                            *)
(*   stop        about to call stop_zone               (line 315)          *)
(*   clear       about to look the Event up and clear  (line 316)          *)
(* An execution that returns or raises leaves the bag.                     *)
(***************************************************************************)
\* a new execution of run_zone(zone, duration_minutes)
NewRun(z, duration_minutes) ==
    [zone |-> z, duration |-> duration_minutes, pc |-> "start", ev |-> 0,
     deadline |-> 0, signalled |-> FALSE]

\* the execution has activated the output and has not returned
Running(r) == r.pc \in {"wait_enter", "waiting", "stop", "clear"}

\* the bag with execution r replaced by r2
Step(r, r2) == (runs (-) SetToBag({r})) (+) SetToBag({r2})

\* the bag without execution r, which has returned or raised
End(r) == runs (-) SetToBag({r})

\* GPIO.output(pin, level) returns: the channel is set up as an output and
\* the driver works
OutputWorks(pin) == pin \in DOMAIN gpio /\ "driver" \notin faults

\* start_zone; GPIO.output raises on a channel that is not set up and when the
\* driver fails, before zone.active is assigned
RunStart(r) ==
    /\ r.pc = "start"
    /\ LET z == r.zone
           pin == zobj[z].gpio_pin
       IN  IF OutputWorks(pin)
           THEN /\ gpio' = [gpio EXCEPT ![pin] = HIGH]
                /\ zobj' = [zobj EXCEPT ![z].active = TRUE]
                /\ runs' = Step(r, [r EXCEPT !.pc = "wait_enter"])
           ELSE /\ runs' = End(r)
                /\ zobj' = CollectZones(zobj, zones, runs')
                /\ UNCHANGED gpio
    /\ UNCHANGED << zones, stop_events, event_flag, global_schedule_enabled,
                    is_running, store, dispatched, now, next_check, api,
                    shutdown, matches_call, response, faults >>

\* self.stop_events[zone.name].wait(timeout=duration_minutes * 60), entered;
\* the lookup raises KeyError when the name is no key of the dict
RunWaitEnter(r) ==
    /\ r.pc = "wait_enter"
    /\ LET e == SignalOf(r.zone)
       IN  IF e = 0
           THEN /\ runs' = End(r)
                /\ zobj' = CollectZones(zobj, zones, runs')
           ELSE /\ runs' = Step(r, IF event_flag[e]
                                   THEN [r EXCEPT !.pc = "stop"]
                                   ELSE [r EXCEPT !.pc = "waiting", !.ev = e,
                                                  !.deadline = now + r.duration])
                /\ UNCHANGED zobj
    /\ UNCHANGED << zones, stop_events, event_flag, global_schedule_enabled,
                    is_running, gpio, store, dispatched, now, next_check, api,
                    shutdown, matches_call, response, faults >>

\* wait() returns because the timeout has elapsed
RunTimeout(r) ==
    /\ r.pc = "waiting"
    /\ now >= r.deadline
    /\ runs' = Step(r, [r EXCEPT !.pc = "stop", !.ev = 0, !.deadline = 0])
    /\ event_flag' = CollectEvents(event_flag, stop_events, runs')
    /\ UNCHANGED << zones, zobj, stop_events, global_schedule_enabled, is_running,
                    gpio, store, dispatched, now, next_check, api,
                    shutdown, matches_call, response, faults >>

\* stop_zone; GPIO.output raises on a channel that is not set up and when the
\* driver fails, before zone.active is assigned
RunStop(r) ==
    /\ r.pc = "stop"
    /\ LET z == r.zone
           pin == zobj[z].gpio_pin
       IN  IF OutputWorks(pin)
           THEN /\ gpio' = [gpio EXCEPT ![pin] = LOW]
                /\ zobj' = [zobj EXCEPT ![z].active = FALSE]
                /\ runs' = Step(r, [r EXCEPT !.pc = "clear"])
           ELSE /\ runs' = End(r)
                /\ zobj' = CollectZones(zobj, zones, runs')
                /\ UNCHANGED gpio
    /\ UNCHANGED << zones, stop_events, event_flag, global_schedule_enabled,
                    is_running, store, dispatched, now, next_check, api,
                    shutdown, matches_call, response, faults >>

\* self.stop_events[zone.name].clear(), then run_zone returns; the lookup
\* raises KeyError when the name is no key of the dict
RunClear(r) ==
    /\ r.pc = "clear"
    /\ LET e == SignalOf(r.zone)
       IN  /\ event_flag' = IF e = 0 THEN event_flag ELSE [event_flag EXCEPT ![e] = FALSE]
           /\ runs' = End(r)
           /\ zobj' = CollectZones(zobj, zones, runs')
    /\ UNCHANGED << zones, stop_events, global_schedule_enabled, is_running, gpio,
                    store, dispatched, now, next_check, api, shutdown, matches_call,
                    response, faults >>

\* time passes
Advance ==
    /\ \E s \in StartInstants : s <= now /\ now < s + MaxMinutes
    /\ now' = now + 1
    /\ UNCHANGED << zones, zobj, stop_events, event_flag, global_schedule_enabled,
                    is_running, gpio, store, runs, dispatched, next_check, api,
                    shutdown, matches_call, response, faults >>

(***************************************************************************)
(* Scheduler loop: run_controller and check_and_run.                       *)
(***************************************************************************)
\* run_controller is entered: self.is_running = True
RunController ==
    /\ ~is_running /\ ~shutdown
    /\ is_running' = TRUE
    /\ UNCHANGED << zones, zobj, stop_events, event_flag, global_schedule_enabled,
                    gpio, store, runs, dispatched, now, next_check, api,
                    shutdown, matches_call, response, faults >>

\* check_and_run calls datetime.now() once in should_run_today and once in
\* is_start_time, for each zone in turn.  The first k of these reads return
\* `now`, the later ones the next minute.
ReadAt(k, pos) == IF pos <= k THEN now ELSE now + 1

\* the zone at index i passes the tests of the loop body (lines 324-328)
Triggered(i, k) ==
    LET zone == zobj[zones[i]]
    IN  /\ zone.schedule.enabled
        /\ should_run_today(zone.schedule, ReadAt(k, 2 * i - 1))
        /\ is_start_time(zone.schedule, ReadAt(k, 2 * i))
        /\ ~zone.active

\* the zones check_and_run starts a thread for
Dispatches(k) ==
    IF global_schedule_enabled
    THEN {zones[i] : i \in {j \in 1..Len(zones) : Triggered(j, k)}}
    ELSE {}

\* one iteration of run_controller's loop: check_and_run(), then time.sleep(60)
check_and_run ==
    /\ is_running /\ ~shutdown
    /\ now >= next_check
    /\ \E k \in 0..(2 * Len(zones)) :
          LET reads == IF global_schedule_enabled THEN 2 * Len(zones) ELSE 0
              started == Dispatches(k)
          IN  /\ k <= reads
              /\ k < reads => \E s \in StartInstants : s <= now /\ now < s + MaxMinutes
              /\ "thread" \in faults => started = {}
              /\ dispatched + Cardinality(started) <= MaxRuns
              /\ runs' = runs (+) SetToBag({NewRun(z, zobj[z].schedule.duration_minutes) :
                                               z \in started})
              /\ dispatched' = dispatched + Cardinality(started)
              /\ now' = IF k < reads THEN now + 1 ELSE now
              /\ next_check' = now' + 1
    /\ UNCHANGED << zones, zobj, stop_events, event_flag, global_schedule_enabled,
                    is_running, gpio, store, api, shutdown, matches_call, response, faults >>

\* an iteration of run_controller's loop in which thread.start() raises for
\* the first zone check_and_run wants to start: the exception leaves
\* check_and_run and the loop, and the `finally` of run_controller calls
\* cleanup(), which sets every Event, stops every active zone and releases
\* every channel
check_and_run_raises ==
    /\ is_running /\ ~shutdown
    /\ now >= next_check
    /\ "thread" \in faults
    /\ Dispatches(2 * Len(zones)) # {}
    /\ LET E == {SignalOf(zones[i]) : i \in 1..Len(zones)}
           stopped == {zones[i] : i \in {j \in 1..Len(zones) : zobj[zones[j]].active}}
       IN  /\ event_flag' = EventSetFlags(event_flag, E)
           /\ runs' = EventSetRuns(runs, E)
           /\ zobj' = [z \in DOMAIN zobj |->
                         IF z \in stopped THEN [zobj[z] EXCEPT !.active = FALSE]
                         ELSE zobj[z]]
    /\ is_running' = FALSE
    /\ gpio' = [p \in {} |-> LOW]
    /\ shutdown' = TRUE
    /\ UNCHANGED << zones, stop_events, global_schedule_enabled, store, dispatched,
                    now, next_check, api, matches_call, response, faults >>

\* cleanup: every zone's Event is set and every active zone stopped, then
\* GPIO.cleanup() releases every channel
cleanup ==
    /\ ~shutdown /\ api = NoRequest
    /\ LET E == {SignalOf(zones[i]) : i \in 1..Len(zones)}
           stopped == {zones[i] : i \in {j \in 1..Len(zones) : zobj[zones[j]].active}}
       IN  /\ event_flag' = EventSetFlags(event_flag, E)
           /\ runs' = EventSetRuns(runs, E)
           /\ zobj' = [z \in DOMAIN zobj |->
                         IF z \in stopped THEN [zobj[z] EXCEPT !.active = FALSE]
                         ELSE zobj[z]]
    /\ is_running' = FALSE
    /\ gpio' = [p \in {} |-> LOW]
    /\ shutdown' = TRUE
    /\ UNCHANGED << zones, stop_events, global_schedule_enabled, store, dispatched,
                    now, next_check, api, matches_call, response, faults >>

(***************************************************************************)
(* API handlers.  The event loop runs one handler at a time; the scheduler *)
(* loop and the run_zone threads run beside it.  A handler that reads a    *)
(* field a run_zone thread writes and then acts on it takes two steps.     *)
(***************************************************************************)
Serving == api = NoRequest /\ ~shutdown

\* what a handler sends back
Respond(op, status) == response' = [op |-> op, status |-> status]

\* run_zone_manually without its test of target_zone.active
run_zone_manually_status_unchecked(zone_name) ==
    IF FindZone(zone_name) = 0 THEN 404 ELSE 200

\* run_zone_manually: the status code of the response
run_zone_manually_status(zone_name) ==
    IF FindZone(zone_name) = 0 THEN 404
    ELSE IF zobj[FindZone(zone_name)].active THEN 409
    ELSE 200

\* run_zone_manually: background_tasks.add_task(controller.run_zone, ...)
run_zone_manually(zone_name, duration_minutes) ==
    /\ Serving
    /\ Respond("run_zone_manually", run_zone_manually_status(zone_name))
    /\ IF run_zone_manually_status(zone_name) = 200
       THEN /\ dispatched < MaxRuns
            /\ runs' = runs (+) SetToBag({NewRun(FindZone(zone_name), duration_minutes)})
            /\ dispatched' = dispatched + 1
            /\ UNCHANGED << zones, zobj, stop_events, event_flag,
                            global_schedule_enabled, is_running, gpio, store, now,
                            next_check, api, shutdown, matches_call, faults >>
       ELSE UNCHANGED state

\* stop_zone_manually: the status code of the response
stop_zone_manually_status(zone_name) ==
    IF FindZone(zone_name) = 0 THEN 404
    ELSE IF ~zobj[FindZone(zone_name)].active THEN 409
    ELSE 200

\* stop_zone_manually up to its test of target_zone.active (lines 241-252)
stop_zone_manually(zone_name) ==
    /\ Serving
    /\ IF stop_zone_manually_status(zone_name) = 200
       THEN /\ api' = [op |-> "stop", name |-> zone_name]
            /\ UNCHANGED << zones, zobj, stop_events, event_flag,
                            global_schedule_enabled, is_running, gpio, store, runs,
                            dispatched, now, next_check, shutdown, matches_call,
                            response, faults >>
       ELSE /\ Respond("stop_zone_manually", stop_zone_manually_status(zone_name))
            /\ UNCHANGED state

\* stop_zone_manually: controller.stop_events[zone_name].set() (line 255)
stop_zone_manually_set ==
    /\ api.op = "stop"
    /\ LET E == {stop_events[api.name]}
       IN  /\ event_flag' = EventSetFlags(event_flag, E)
           /\ runs' = EventSetRuns(runs, E)
    /\ api' = NoRequest
    /\ Respond("stop_zone_manually", 200)
    /\ UNCHANGED << zones, zobj, stop_events, global_schedule_enabled, is_running,
                    gpio, store, dispatched, now, next_check, shutdown, matches_call, faults >>

\* a list without its i-th element: del self.zones[i]
DelAt(list, i) == SubSeq(list, 1, i - 1) \o SubSeq(list, i + 1, Len(list))

\* delete_zone: the status code of the response; the HTTPException(404) raised
\* inside the try block is caught by its `except Exception` and becomes a 400
delete_zone_status(zone_name) == IF FindZone(zone_name) = 0 THEN 400 ELSE 200

\* delete_zone: controller.remove_zone(zone_name)
remove_zone(zone_name) ==
    /\ Serving
    /\ Respond("delete_zone", delete_zone_status(zone_name))
    /\ IF FindZone(zone_name) = 0 THEN UNCHANGED state
       ELSE LET z == FindZone(zone_name)
                i == CHOOSE j \in 1..Len(zones) : zones[j] = z
                E == {stop_events[zone_name]}
                pin == zobj[z].gpio_pin
                active == zobj[z].active
            IN  /\ zones' = DelAt(zones, i)
                /\ stop_events' = [n \in DOMAIN stop_events \ {zone_name} |-> stop_events[n]]
                /\ runs' = IF active THEN EventSetRuns(runs, E) ELSE runs
                /\ gpio' = IF active THEN [gpio EXCEPT ![pin] = LOW] ELSE gpio
                /\ zobj' = CollectZones(
                              IF active THEN [zobj EXCEPT ![z].active = FALSE] ELSE zobj,
                              zones', runs')
                /\ event_flag' = CollectEvents(
                              IF active THEN EventSetFlags(event_flag, E) ELSE event_flag,
                              stop_events', runs')
                /\ save_schedule(zones', zobj', global_schedule_enabled)
                /\ UNCHANGED << global_schedule_enabled, is_running, dispatched, now,
                                next_check, api, shutdown, matches_call, faults >>

\* the pattern of ScheduleModel.start_time: ^([0-1]?[0-9]|2[0-3]):[0-5][0-9]$
StartTimePattern(text) ==
    \E c \in 1..Len(text) :
        LET hh == SubSeq(text, 1, c - 1)
            mm == SubSeq(text, c + 1, Len(text))
        IN  /\ text[c] = ":"
            /\ Len(mm) = 2 /\ IsDigit(mm[1]) /\ IsDigit(mm[2]) /\ DigitVal(mm[1]) <= 5
            /\ \/ Len(hh) = 1 /\ IsDigit(hh[1])
               \/ /\ Len(hh) = 2 /\ IsDigit(hh[1]) /\ IsDigit(hh[2])
                  /\ \/ DigitVal(hh[1]) <= 1
                     \/ DigitVal(hh[1]) = 2 /\ DigitVal(hh[2]) <= 3

\* ScheduleModel: the request body passes validation; days has 1 to 7 items
\* (their values are not constrained), duration_minutes is in (0, 180]
ScheduleModelValid(sched) ==
    /\ Len(sched.days) >= 1 /\ Len(sched.days) <= 7
    /\ StartTimePattern(sched.start_time)
    /\ sched.duration_minutes > 0 /\ sched.duration_minutes <= 180

\* ZoneModel: name of 1 to 50 characters, gpio_pin in 0..27, a valid schedule
ZoneModelValid(name, gpio_pin, sched) ==
    /\ name # ""
    /\ gpio_pin >= 0 /\ gpio_pin <= 27
    /\ ScheduleModelValid(sched)

\* a create_zone that looks for the name only among the existing zones
create_zone_status_name_only(name, gpio_pin, sched) ==
    IF ~ZoneModelValid(name, gpio_pin, sched) THEN 422
    ELSE IF \E i \in 1..Len(zones) : zobj[zones[i]].name = name
    THEN 409
    ELSE IF SprinklerSchedule(sched.days, sched.start_time, sched.duration_minutes,
                              sched.enabled) = ValueError
    THEN 400
    ELSE 201

\* create_zone: the status code of the response; a body that fails validation
\* is answered 422 before the handler is called
create_zone_status(name, gpio_pin, sched) ==
    IF ~ZoneModelValid(name, gpio_pin, sched) THEN 422
    ELSE IF \E i \in 1..Len(zones) :
          zobj[zones[i]].name = name \/ zobj[zones[i]].gpio_pin = gpio_pin
    THEN 409
    ELSE IF SprinklerSchedule(sched.days, sched.start_time, sched.duration_minutes,
                              sched.enabled) = ValueError
    THEN 400
    ELSE 201

\* create_zone: controller.add_zone(...)
add_zone(name, gpio_pin, sched) ==
    /\ Serving
    /\ Respond("create_zone", create_zone_status(name, gpio_pin, sched))
    /\ IF create_zone_status(name, gpio_pin, sched) = 201
       THEN LET id == Len(zobj) + 1
                schedule == SprinklerSchedule(sched.days, sched.start_time,
                                              sched.duration_minutes, sched.enabled)
            IN  /\ Len(zobj) < MaxZoneObjs
                /\ zobj' = Append(zobj, Zone(name, gpio_pin, schedule))
                /\ event_flag' = Append(event_flag, FALSE)
                /\ gpio' = GpioSetupLow(gpio, gpio_pin)
                /\ zones' = Append(zones, id)
                /\ stop_events' = [n \in DOMAIN stop_events \cup {name} |->
                                      IF n = name THEN id ELSE stop_events[n]]
                /\ save_schedule(zones', zobj', global_schedule_enabled)
                /\ UNCHANGED << global_schedule_enabled, is_running, runs, dispatched,
                                now, next_check, api, shutdown, matches_call, faults >>
       ELSE UNCHANGED state

\* the PUT handler of /zones/{zone_name}/schedule: the status code
update_zone_schedule_status(zone_name, sched) ==
    IF ~ScheduleModelValid(sched) THEN 422
    ELSE IF FindZone(zone_name) = 0 THEN 404
    ELSE IF SprinklerSchedule(sched.days, sched.start_time, sched.duration_minutes,
                              sched.enabled) = ValueError
    THEN 400
    ELSE 200

\* an update that puts a new Zone object with the new schedule in the place
\* of the old one
update_zone_schedule_new_zone(zone_name, sched) ==
    /\ Serving
    /\ Respond("update_zone_schedule", update_zone_schedule_status(zone_name, sched))
    /\ IF update_zone_schedule_status(zone_name, sched) = 200
       THEN /\ zobj' = [zobj EXCEPT ![FindZone(zone_name)] =
                          Zone(zone_name, zobj[FindZone(zone_name)].gpio_pin,
                               SprinklerSchedule(sched.days, sched.start_time,
                                                 sched.duration_minutes, sched.enabled))]
            /\ save_schedule(zones, zobj', global_schedule_enabled)
            /\ UNCHANGED << zones, stop_events, event_flag, global_schedule_enabled,
                            is_running, gpio, runs, dispatched, now, next_check, api,
                            shutdown, matches_call, faults >>
       ELSE UNCHANGED state

\* controller.update_zone_schedule(...)
update_zone_schedule(zone_name, sched) ==
    /\ Serving
    /\ Respond("update_zone_schedule", update_zone_schedule_status(zone_name, sched))
    /\ IF update_zone_schedule_status(zone_name, sched) = 200
       THEN /\ zobj' = [zobj EXCEPT ![FindZone(zone_name)].schedule =
                          SprinklerSchedule(sched.days, sched.start_time,
                                            sched.duration_minutes, sched.enabled)]
            /\ save_schedule(zones, zobj', global_schedule_enabled)
            /\ UNCHANGED << zones, stop_events, event_flag, global_schedule_enabled,
                            is_running, gpio, runs, dispatched, now, next_check, api,
                            shutdown, matches_call, faults >>
       ELSE UNCHANGED state

\* enable_zone_schedule (enabled = TRUE) and disable_zone_schedule (FALSE)
set_zone_schedule_enabled(zone_name, enabled) ==
    /\ Serving
    /\ Respond(IF enabled THEN "enable_zone_schedule" ELSE "disable_zone_schedule",
               IF FindZone(zone_name) # 0 THEN 200 ELSE 404)
    /\ IF FindZone(zone_name) # 0
       THEN /\ zobj' = [zobj EXCEPT ![FindZone(zone_name)].schedule.enabled = enabled]
            /\ save_schedule(zones, zobj', global_schedule_enabled)
            /\ UNCHANGED << zones, stop_events, event_flag, global_schedule_enabled,
                            is_running, gpio, runs, dispatched, now, next_check, api,
                            shutdown, matches_call, faults >>
       ELSE UNCHANGED state

\* enable_global_schedule (TRUE) and disable_global_schedule (FALSE)
set_global_schedule_enabled(enabled) ==
    /\ Serving
    /\ Respond(IF enabled THEN "enable_global_schedule" ELSE "disable_global_schedule",
               200)
    /\ global_schedule_enabled' = enabled
    /\ save_schedule(zones, zobj, enabled)
    /\ UNCHANGED << zones, zobj, stop_events, event_flag, is_running, gpio, runs,
                    dispatched, now, next_check, api, shutdown, matches_call, faults >>

(***************************************************************************)
(* The system in operation: the run_zone threads, the scheduler loop,      *)
(* manual control, removal of zones, shutdown.                             *)
(***************************************************************************)
RunStep ==
    \/ \E r \in DOMAIN runs : RunStart(r)
    \/ \E r \in DOMAIN runs : RunWaitEnter(r)
    \/ \E r \in DOMAIN runs : RunTimeout(r)
    \/ \E r \in DOMAIN runs : RunStop(r)
    \/ \E r \in DOMAIN runs : RunClear(r)

Next ==
    \/ RunStep
    \/ Advance
    \/ RunController
    \/ check_and_run
    \/ cleanup
    \/ \E n \in ZoneNames, d \in RunInputs : run_zone_manually(n, d)
    \/ \E n \in ZoneNames : stop_zone_manually(n)
    \/ stop_zone_manually_set
    \/ \E n \in ZoneNames : remove_zone(n)

Spec == Init /\ [][Next]_vars

(***************************************************************************)
(* The scheduler beside the requests that configure it: schedule updates,  *)
(* the per-zone and the global switch, and manual runs.                     *)
(***************************************************************************)
NextSchedule ==
    \/ RunStep
    \/ Advance
    \/ RunController
    \/ check_and_run
    \/ \E n \in ZoneNames, d \in RunInputs : run_zone_manually(n, d)
    \/ \E n \in ZoneNames, s \in ScheduleInputs : update_zone_schedule(n, s)
    \/ \E n \in ZoneNames, b \in BOOLEAN : set_zone_schedule_enabled(n, b)
    \/ \E b \in BOOLEAN : set_global_schedule_enabled(b)

SpecSchedule == InitSchedule /\ [][NextSchedule]_vars

(***************************************************************************)
(* The configuration and its file: the requests that change zones and      *)
(* schedules, a disk that fails, a file that is damaged or lost, and the    *)
(* process started again, which loads the file.                            *)
(***************************************************************************)
\* zones sent with create requests: a new name on a free pin, a new name on
\* a pin in use, a name in use on a free pin
ZoneInputs ==
    { [name |-> "Garden", gpio_pin |-> 22], [name |-> "Garden", gpio_pin |-> 17],
      [name |-> "Front Yard", gpio_pin |-> 22] }

\* names sent with requests on one zone
RequestNames == ZoneNames \cup {"Garden"}

\* schedules sent with create and update requests
StoreSchedules ==
    { [days |-> <<1, 3>>, start_time |-> <<"6", ":", "0", "1">>,
       duration_minutes |-> 5, enabled |-> FALSE] }

\* a zone entry of the file that load_schedule cannot turn into a Zone
BadEntry ==
    [name |-> "Lawn", gpio_pin |-> 23,
     schedule |-> [days |-> <<0>>, start_time |-> <<"2", "5", ":", "0", "0">>,
                   duration_minutes |-> 10, enabled |-> TRUE]]

\* a zone entry load_schedule accepts
GoodEntry ==
    [name |-> "Garden", gpio_pin |-> 22,
     schedule |-> [days |-> <<0>>, start_time |-> <<"0", "7", ":", "0", "0">>,
                   duration_minutes |-> 10, enabled |-> TRUE]]

\* files the program did not write: none, no JSON, and a JSON document whose
\* flag and first zone load while its second zone does not
DamagedFiles ==
    { NoFile, NotJson,
      [global_schedule_enabled |-> FALSE, zones |-> <<GoodEntry, BadEntry>>] }

\* the file is lost or damaged while the controller runs or is down
DamageFile ==
    /\ store' \in DamagedFiles
    /\ UNCHANGED << zones, zobj, stop_events, event_flag, global_schedule_enabled,
                    is_running, gpio, runs, dispatched, now, next_check, api,
                    shutdown, matches_call, response, faults >>

\* the disk becomes read-only or full, or works again
DiskFault ==
    /\ faults' \in {{}, {"disk_readonly"}, {"disk_full"}}
    /\ UNCHANGED << zones, zobj, stop_events, event_flag, global_schedule_enabled,
                    is_running, gpio, store, runs, dispatched, now, next_check,
                    api, shutdown, matches_call, response >>

\* the process ends and is started again: SprinklerController.__init__ with
\* the file as it is; create_default_schedule saves the default
Restart ==
    /\ api = NoRequest
    /\ LET c == load_schedule(store)
       IN  /\ zones' = c.zones
           /\ zobj' = c.zobj
           /\ stop_events' = c.stop_events
           /\ event_flag' = [e \in 1..Len(c.zobj) |-> FALSE]
           /\ global_schedule_enabled' = c.global_schedule_enabled
           /\ gpio' = [p \in c.pins |-> LOW]
           /\ IF c.default
              THEN save_schedule(c.zones, c.zobj, c.global_schedule_enabled)
              ELSE UNCHANGED store
    /\ is_running' = FALSE
    /\ runs' = EmptyBag
    /\ next_check' = 0
    /\ shutdown' = FALSE
    /\ response' = [op |-> "startup", status |-> 0]
    /\ UNCHANGED << dispatched, now, api, matches_call, faults >>

NextStore ==
    \/ \E z \in ZoneInputs, s \in StoreSchedules : add_zone(z.name, z.gpio_pin, s)
    \/ \E n \in {"Garden", "Back Yard"} : remove_zone(n)
    \/ \E n \in {"Front Yard", "Garden"}, s \in StoreSchedules : update_zone_schedule(n, s)
    \/ \E n \in {"Front Yard", "Garden"}, b \in BOOLEAN : set_zone_schedule_enabled(n, b)
    \/ \E b \in BOOLEAN : set_global_schedule_enabled(b)
    \/ DiskFault
    \/ DamageFile
    \/ Restart

SpecStore == Init /\ [][NextStore]_vars

(***************************************************************************)
(* Saving and loading beside the runs: a zone is run by hand, the          *)
(* configuration is changed and saved while it runs, the process is        *)
(* started again and loads what was saved.                                 *)
(***************************************************************************)
NextReload ==
    \/ RunStep
    \/ Advance
    \/ run_zone_manually("Front Yard", 1)
    \/ \E s \in StoreSchedules : add_zone("Garden", 22, s)
    \/ remove_zone("Back Yard")
    \/ \E s \in StoreSchedules : update_zone_schedule("Front Yard", s)
    \/ \E b \in BOOLEAN : set_global_schedule_enabled(b)
    \/ Restart

SpecReload == Init /\ [][NextReload]_vars

(***************************************************************************)
(* The requests that configure zones, with bodies and names the API must   *)
(* reject among them.                                                      *)
(***************************************************************************)
\* schedules sent with create and update requests: one that is in order, and
\* one for each way of breaking a constraint
ConfigSchedules ==
    StoreSchedules \cup
    { [days |-> <<0>>, start_time |-> <<"2", "5", ":", "0", "0">>,
       duration_minutes |-> 10, enabled |-> TRUE],
      [days |-> <<0>>, start_time |-> <<"0", "7", ":", "0", "0">>,
       duration_minutes |-> 0, enabled |-> TRUE],
      [days |-> <<0>>, start_time |-> <<"0", "7", ":", "0", "0">>,
       duration_minutes |-> 181, enabled |-> TRUE],
      [days |-> << >>, start_time |-> <<"0", "7", ":", "0", "0">>,
       duration_minutes |-> 10, enabled |-> TRUE],
      [days |-> <<7>>, start_time |-> <<"0", "7", ":", "0", "0">>,
       duration_minutes |-> 10, enabled |-> TRUE] }

NextConfig ==
    \/ \E z \in ZoneInputs, s \in ConfigSchedules : add_zone(z.name, z.gpio_pin, s)
    \/ \E n \in RequestNames : remove_zone(n)
    \/ \E n \in RequestNames, s \in ConfigSchedules : update_zone_schedule(n, s)
    \/ \E n \in RequestNames, b \in BOOLEAN : set_zone_schedule_enabled(n, b)
    \/ \E b \in BOOLEAN : set_global_schedule_enabled(b)

SpecConfig == Init /\ [][NextConfig]_vars

(***************************************************************************)
(* Runs and scheduler ticks with a driver that fails and with threads that *)
(* cannot be started.                                                      *)
(***************************************************************************)
\* GPIO.output begins or ceases to raise
DriverFault ==
    /\ faults' \in {faults \cup {"driver"}, faults \ {"driver"}}
    /\ faults' # faults
    /\ UNCHANGED << zones, zobj, stop_events, event_flag, global_schedule_enabled,
                    is_running, gpio, store, runs, dispatched, now, next_check,
                    api, shutdown, matches_call, response >>

\* threading.Thread.start begins or ceases to raise
ThreadFault ==
    /\ faults' \in {faults \cup {"thread"}, faults \ {"thread"}}
    /\ faults' # faults
    /\ UNCHANGED << zones, zobj, stop_events, event_flag, global_schedule_enabled,
                    is_running, gpio, store, runs, dispatched, now, next_check,
                    api, shutdown, matches_call, response >>

NextDriver ==
    \/ RunStep
    \/ Advance
    \/ RunController
    \/ check_and_run
    \/ check_and_run_raises
    \/ \E n \in ZoneNames, d \in RunInputs : run_zone_manually(n, d)
    \/ DriverFault
    \/ ThreadFault

SpecDriver == Init /\ [][NextDriver]_vars

(***************************************************************************)
(* A zone is removed while a run of it is dispatched or in progress, and   *)
(* a new zone is created on the channel that became free.                  *)
(***************************************************************************)
NextRemoval ==
    \/ RunStep
    \/ Advance
    \/ run_zone_manually("Front Yard", 1)
    \/ remove_zone("Front Yard")
    \/ \E s \in StoreSchedules : add_zone("Garden", 17, s)

SpecRemoval == Init /\ [][NextRemoval]_vars

(***************************************************************************)
(* should_run_today() and is_start_time() as functions of the schedule and *)
(* of the instant: every minute of a week against a set of schedules.      *)
(***************************************************************************)
MatchDays == {<<0, 2, 4>>, <<1, 3, 5>>, <<6>>, <<0, 1, 2, 3, 4, 5, 6>>}

MatchTimes ==
    { <<"0", "6", ":", "0", "0">>, <<"0", "6", ":", "3", "0">>,
      <<"0", "0", ":", "0", "0">>, <<"2", "3", ":", "5", "9">>,
      <<"6", ":", "0", "1">> }

MatchSchedules == {SprinklerSchedule(d, t, 20, TRUE) : d \in MatchDays, t \in MatchTimes}

InitMatch ==
    /\ Constructed
    /\ now = At(0, 5, 59)
    /\ matches_call \in [schedule : MatchSchedules, t : 0..(MinutesPerWeek - 1),
                         evaluated : {FALSE}, result : {FALSE}]

\* zone.schedule.should_run_today() and zone.schedule.is_start_time(), both
\* reading the clock at the instant t
EvaluateMatch ==
    /\ ~matches_call.evaluated
    /\ matches_call' = [matches_call EXCEPT
            !.evaluated = TRUE,
            !.result = should_run_today(matches_call.schedule, matches_call.t)
                       /\ is_start_time(matches_call.schedule, matches_call.t)]
    /\ UNCHANGED << zones, zobj, stop_events, event_flag, global_schedule_enabled,
                    is_running, gpio, store, runs, dispatched, now, next_check, api,
                    shutdown, response, faults >>

SpecMatch == InitMatch /\ [][EvaluateMatch]_vars

(***************************************************************************)
(* Properties.                                                             *)
(***************************************************************************)
\* number of executions in progress that have activated Zone object z
RunningCount(z) ==
    BagCardinality([r \in {x \in DOMAIN runs : x.zone = z /\ Running(x)} |-> runs[r]])

\* Zone object z is Idle: its flag is false and no execution has it activated
Idle(z) == ~zobj[z].active /\ RunningCount(z) = 0

\* execution r returns or raises in the step
Ends(r) ==
    /\ BagCardinality(runs') < BagCardinality(runs)
    /\ CopiesIn(r, runs') < CopiesIn(r, runs)

\* C1: under every interleaving of scheduler ticks and manual run requests,
\* at most one run_zone execution is in progress for a zone at any instant.
SingleFlight == \A z \in DOMAIN zobj : RunningCount(z) <= 1

\* C2: a run_zone execution that has activated its zone's output ends, on
\* every exit path, with the output deactivated, the zone's `active` flag
\* false and the zone's cancellation signal clear.
RunExitCleansUp ==
    [][\A r \in DOMAIN runs :
          (Running(r) /\ Ends(r)) =>
              LET pin == zobj[r.zone].gpio_pin
                  name == zobj[r.zone].name
              IN  /\ ~(pin \in DOMAIN gpio' /\ gpio'[pin] = HIGH)
                  /\ ~zobj'[r.zone].active
                  /\ name \in DOMAIN stop_events' => ~event_flag'[stop_events'[name]]]_vars

\* C3: when remove_zone deletes a zone's entry, no run_zone execution of that
\* zone is still in progress.
RemoveWaitsForIdle ==
    [][\A z \in Range(zones) :
          z \notin Range(zones') => \A r \in DOMAIN runs' : ~(r.zone = z /\ Running(r))]_vars

\* C4: when cleanup has returned, no run_zone execution is still in progress.
ShutdownIsBarrier == shutdown => \A r \in DOMAIN runs : ~Running(r)

\* C5: a run whose zone's cancellation signal was set after it activated the
\* output does not wait out its duration: it is never blocked in the timed wait.
CancelledRunNotBlocked == \A r \in DOMAIN runs : r.signalled => r.pc # "waiting"

\* C7: while the controller is in service, the cancellation signal of a zone
\* is never set while that zone is Idle.
NoSignalWhileIdle ==
    ~shutdown =>
        \A i \in 1..Len(zones) :
            (Idle(zones[i]) /\ SignalOf(zones[i]) # 0) => ~event_flag[SignalOf(zones[i])]

\* C6: a manual run request on a zone whose `active` flag is true is answered
\* with Conflict (409) and changes nothing: the outputs, the `active` flags,
\* the cancellation signals, the schedules (zone objects and store) and the
\* executions in progress stay as they are, and no execution is dispatched.
ManualRunOnActiveZoneConflicts ==
    [][\A n \in ZoneNames, d \in RunInputs :
          (/\ FindZone(n) # 0
           /\ zobj[FindZone(n)].active
           /\ run_zone_manually(n, d))
          => /\ response' = [op |-> "run_zone_manually", status |-> 409]
             /\ UNCHANGED << gpio, zobj, zones, stop_events, event_flag, store,
                             runs, dispatched >>]_vars

\* a Conflict was sent for a manual run while a zone is active and running
ManualRunConflictSent ==
    /\ response = [op |-> "run_zone_manually", status |-> 409]
    /\ \E i \in 1..Len(zones) :
          /\ zobj[zones[i]].active
          /\ Energized(zobj[zones[i]].gpio_pin)
          /\ RunningCount(zones[i]) >= 1

\* the schedule matches the instant t: the weekday of t is one of its days and
\* the hour and the minute of t are those of its start time
Matching(schedule, t) ==
    /\ InList(weekday(t), schedule.days)
    /\ hour(t) = schedule.start_time.hour
    /\ minute(t) = schedule.start_time.minute

\* this step is a scheduler tick
Tick == next_check' # next_check

\* this step dispatches a run of zone z for the duration of its schedule
DispatchedInStep(z) ==
    LET r == NewRun(z, zobj[z].schedule.duration_minutes)
    IN  CopiesIn(r, runs') > CopiesIn(r, runs)

\* C8: a scheduler tick has one instant `now` (the clock when it begins or when
\* it ends) such that it dispatches a zone, for schedule.duration_minutes, if
\* and only if the global switch is on, the zone's schedule is enabled, the
\* zone is not active and its schedule matches that instant.
TickDispatchesMatchingZones ==
    [][Tick =>
        \E t \in {now, now'} : \A i \in 1..Len(zones) :
            LET z == zones[i]
            IN  DispatchedInStep(z) <=>
                   /\ global_schedule_enabled
                   /\ zobj[z].schedule.enabled
                   /\ ~zobj[z].active
                   /\ Matching(zobj[z].schedule, t)]_vars

\* C9: a zone is dispatched by the scheduler only at a tick that falls in
\* the weekday and minute of its schedule: the clock shows a matching instant
\* when the tick begins or when it ends.
DispatchOnlyAtMatchingTick ==
    [][Tick =>
        \A i \in 1..Len(zones) :
            DispatchedInStep(zones[i]) =>
               \/ Matching(zobj[zones[i]].schedule, now)
               \/ Matching(zobj[zones[i]].schedule, now')]_vars

\* the minute before and the minute after t, within the week
MinuteBefore(t) == (t + MinutesPerWeek - 1) % MinutesPerWeek
MinuteAfter(t) == (t + 1) % MinutesPerWeek

\* C10: should_run_today and is_start_time are both true at an instant if and
\* only if its weekday is one of the schedule's days and its hour and minute
\* are those of the start time; at an instant one minute after or one minute
\* before a matching instant they are not both true.
MatchesIffDayAndMinute ==
    matches_call.evaluated =>
        LET schedule == matches_call.schedule
            t == matches_call.t
        IN  /\ matches_call.result <=> Matching(schedule, t)
            /\ Matching(schedule, MinuteBefore(t)) => ~matches_call.result
            /\ Matching(schedule, MinuteAfter(t)) => ~matches_call.result

\* both were evaluated at a start time of the schedule and were both true
MatchEvaluatedTrue ==
    /\ matches_call.evaluated
    /\ matches_call.result
    /\ InList(weekday(matches_call.t), matches_call.schedule.days)
    /\ minute(matches_call.t) = matches_call.schedule.start_time.minute

\* the configuration c (what load_schedule returns) has the global flag `flag`
\* and, in the same order, the zones of the list zs with the same name, pin
\* and schedule (days, start time, duration, enabled), none of them active
SameConfiguration(c, zs, objs, flag) ==
    /\ c.global_schedule_enabled = flag
    /\ Len(c.zones) = Len(zs)
    /\ \A i \in 1..Len(zs) :
          LET loaded == c.zobj[c.zones[i]]
              saved == objs[zs[i]]
          IN  /\ loaded.name = saved.name
              /\ loaded.gpio_pin = saved.gpio_pin
              /\ loaded.schedule.days = saved.schedule.days
              /\ loaded.schedule.start_time = saved.schedule.start_time
              /\ loaded.schedule.duration_minutes = saved.schedule.duration_minutes
              /\ loaded.schedule.enabled = saved.schedule.enabled
              /\ ~loaded.active

\* C11: loading what save_schedule writes for a configuration gives that
\* configuration back: the load ends without an exception, the global flag is
\* the same, the zones are the same in the same order, field for field, and
\* every loaded zone has `active` false, also when a zone was active at the
\* save; a restart from a store saved from the configuration in memory
\* leaves the controller with that configuration.
SaveLoadRoundTrip ==
    [][/\ LET c == load_schedule(SavedData(zones, zobj, global_schedule_enabled))
          IN  ~c.default /\ SameConfiguration(c, zones, zobj, global_schedule_enabled)
       /\ (Restart /\ store = SavedData(zones, zobj, global_schedule_enabled))
             => /\ store' = store
                /\ SameConfiguration(
                      [zones |-> zones', zobj |-> zobj',
                       global_schedule_enabled |-> global_schedule_enabled'],
                      zones, zobj, global_schedule_enabled)]_vars

\* a configuration that is not the default (a zone added, a schedule with a
\* start time of one hour digit that is disabled, the global switch off) is
\* in the store while a zone is active and its output energized
SavedWhileActive ==
    /\ store = SavedData(zones, zobj, global_schedule_enabled)
    /\ ~global_schedule_enabled
    /\ FindZone("Garden") # 0
    /\ \E i \in 1..Len(zones) :
          /\ zobj[zones[i]].active
          /\ Energized(zobj[zones[i]].gpio_pin)
          /\ ~zobj[zones[i]].schedule.enabled
          /\ zobj[zones[i]].schedule.start_time = [hour |-> 6, minute |-> 1]

\* C12: a start with a store that is missing or does not load completely,
\* on a disk that works, leaves exactly the built-in default: the zones
\* "Front Yard" on 17 and "Back Yard" on 27 with their fixed schedules, the
\* global switch at its initial value, signals and output channels for these
\* two zones only, and the default written to the store.
BadStoreYieldsDefault ==
    [][(Restart /\ ~LoadsCompletely(store) /\ faults = {})
          => /\ [i \in 1..Len(zones') |-> zobj'[zones'[i]]] = DefaultZones
             /\ global_schedule_enabled' = TRUE
             /\ DOMAIN stop_events' = {"Front Yard", "Back Yard"}
             /\ DOMAIN gpio' = {17, 27}
             /\ store' = SavedData(<<1, 2>>, DefaultZones, TRUE)]_vars

\* a zone of the list has this name; a zone of the list is on this channel
NameInUse(name) == \E i \in 1..Len(zones) : zobj[zones[i]].name = name
PinInUse(gpio_pin) == \E i \in 1..Len(zones) : zobj[zones[i]].gpio_pin = gpio_pin

\* C13: a create request with a valid body whose name or channel is in use
\* is answered with Conflict (409) and leaves the zone list, the zones, the
\* signals, the channels and the store unchanged; a create request that
\* succeeds appends the zone to the list; the names of the zones in the list
\* are pairwise distinct, so are their channels, and the list is in order of
\* insertion (of creation of the Zone objects).
AddConflictKeepsZonesDistinct ==
    [][/\ response'.op = "create_zone" =>
             \A z \in ZoneInputs, s \in ConfigSchedules :
                add_zone(z.name, z.gpio_pin, s) =>
                   /\ (/\ ZoneModelValid(z.name, z.gpio_pin, s)
                       /\ NameInUse(z.name) \/ PinInUse(z.gpio_pin))
                      => /\ response'.status = 409
                         /\ UNCHANGED << zones, zobj, stop_events, event_flag,
                                         gpio, store >>
                   /\ response'.status = 201
                      => /\ Len(zones') = Len(zones) + 1
                         /\ SubSeq(zones', 1, Len(zones)) = zones
                         /\ zobj'[zones'[Len(zones')]].name = z.name
                         /\ zobj'[zones'[Len(zones')]].gpio_pin = z.gpio_pin
       /\ \A i, j \in 1..Len(zones') :
             /\ i # j => zobj'[zones'[i]].name # zobj'[zones'[j]].name
             /\ i # j => zobj'[zones'[i]].gpio_pin # zobj'[zones'[j]].gpio_pin
             /\ i < j => zones'[i] < zones'[j]]_vars

\* a Conflict was sent for a create request after a zone had been added: the
\* list holds three zones, the added one last
AddConflictSent ==
    /\ response = [op |-> "create_zone", status |-> 409]
    /\ Len(zones) = 3
    /\ zobj[zones[3]].name = "Garden"

\* C14: a request on a zone name that is not in the zone list (delete, update
\* of the schedule with a valid body, enable or disable of the zone's
\* schedule) is answered with NotFound (404) and changes nothing.
UnknownNameIsNotFound ==
    [][\A n \in RequestNames :
          ~NameInUse(n) =>
             /\ remove_zone(n) => (response'.status = 404 /\ UNCHANGED state)
             /\ \A s \in ConfigSchedules :
                   (ScheduleModelValid(s) /\ update_zone_schedule(n, s))
                   => (response'.status = 404 /\ UNCHANGED state)
             /\ \A b \in BOOLEAN :
                   set_zone_schedule_enabled(n, b)
                   => (response'.status = 404 /\ UNCHANGED state)]_vars

\* the constraints on a schedule: a start time of the day, a duration in
\* (0, 180] minutes, at least one day, every day in 0..6
ScheduleInvariant(schedule) ==
    /\ schedule.start_time.hour \in 0..23
    /\ schedule.start_time.minute \in 0..59
    /\ schedule.duration_minutes > 0 /\ schedule.duration_minutes <= 180
    /\ Len(schedule.days) >= 1
    /\ \A k \in 1..Len(schedule.days) : schedule.days[k] \in 0..6

\* C15: the schedule of every zone of the list satisfies the constraints.
ZonesHoldValidSchedules ==
    \A i \in 1..Len(zones) : ScheduleInvariant(zobj[zones[i]].schedule)

\* C16: an update of the schedule of a zone that an execution of run_zone
\* has activated is answered 200 and leaves the zone's `active` flag, the
\* outputs, the cancellation signals and the executions in progress (their
\* position, duration and deadline) as they are; it changes the schedule of
\* that zone, nothing else of any zone, and the store.
UpdateKeepsRunGoing ==
    [][\A s \in StoreSchedules :
          LET z == FindZone("Front Yard")
          IN  (/\ z # 0
               /\ RunningCount(z) >= 1
               /\ update_zone_schedule("Front Yard", s))
              => /\ response'.status = 200
                 /\ UNCHANGED << runs, gpio, event_flag, stop_events, zones,
                                 global_schedule_enabled, dispatched >>
                 /\ zobj'[z].active = zobj[z].active
                 /\ zobj' = [zobj EXCEPT ![z].schedule = zobj'[z].schedule]
                 /\ zobj'[z].schedule.duration_minutes = s.duration_minutes
                 /\ store' = SavedData(zones, zobj', global_schedule_enabled)]_vars

\* the schedule of "Front Yard" was replaced, and the zone is active with its
\* output energized and an execution of one minute waiting
UpdatedWhileRunning ==
    /\ response = [op |-> "update_zone_schedule", status |-> 200]
    /\ LET z == FindZone("Front Yard")
       IN  /\ z # 0
           /\ zobj[z].active
           /\ Energized(zobj[z].gpio_pin)
           /\ zobj[z].schedule.duration_minutes = 5
           /\ \E r \in DOMAIN runs : r.zone = z /\ r.pc = "waiting" /\ r.duration = 1

\* the step is a request that changes the configuration
Mutation ==
    \/ \E z \in ZoneInputs, sc \in StoreSchedules : add_zone(z.name, z.gpio_pin, sc)
    \/ \E n \in RequestNames : remove_zone(n)
    \/ \E n \in RequestNames, sc \in StoreSchedules : update_zone_schedule(n, sc)
    \/ \E n \in RequestNames, b \in BOOLEAN : set_zone_schedule_enabled(n, b)
    \/ \E b \in BOOLEAN : set_global_schedule_enabled(b)

\* C17: after a request that changes the configuration and is answered with
\* success, the store holds the configuration in memory when the save
\* succeeded, and holds what it held before when the save failed.
StoreFollowsMemory ==
    [][(Mutation /\ response'.status \in {200, 201})
          => IF faults = {}
             THEN store' = SavedData(zones', zobj', global_schedule_enabled')
             ELSE store' = store]_vars

\* C18: when an execution of run_zone, the only one of its zone, has
\* activated the output, the cancellation signal of the zone is clear: a
\* signal set before the run started has been cleared on entry and cannot
\* end the wait at once.
RunEntryClearsSignal ==
    [][\A r \in DOMAIN runs :
          (/\ r.pc = "start"
           /\ \A x \in DOMAIN runs : x.zone = r.zone => (x = r /\ runs[x] = 1)
           /\ RunStart(r)
           /\ Energized(zobj[r.zone].gpio_pin)'
           /\ SignalOf(r.zone) # 0)
          => ~event_flag'[SignalOf(r.zone)]]_vars

\* C19: when GPIO.output raises in start_zone or in stop_zone of an
\* execution of run_zone, the only one of its zone, the execution ends and
\* leaves its zone Idle: `active` is false and the cancellation signal is
\* clear.
DriverFailureLeavesIdle ==
    [][\A r \in DOMAIN runs :
          (/\ r.pc \in {"start", "stop"}
           /\ \A x \in DOMAIN runs : x.zone = r.zone => (x = r /\ runs[x] = 1)
           /\ "driver" \in faults /\ ~shutdown
           /\ RunStart(r) \/ RunStop(r))
          => /\ ~zobj'[r.zone].active
             /\ SignalOf(r.zone) # 0 => ~event_flag'[SignalOf(r.zone)]]_vars

\* C20: an iteration of the scheduler loop in which the start of a zone
\* fails leaves the loop running and the other zones as they are: the
\* executions in progress, their signals and the outputs are not touched.
TickFailureIsIsolated ==
    [][check_and_run_raises
          => /\ is_running'
             /\ UNCHANGED << gpio, event_flag, zobj >>]_vars

\* stop_zone is executed in the step: the `active` flag of a Zone object
\* goes from true to false
StopZoneCalled == \E z \in DOMAIN zobj : zobj[z].active /\ ~zobj'[z].active

\* C21: the driver is told to deactivate an output only by a step of an
\* execution of run_zone: every step in which stop_zone is executed is a
\* step of a run_zone thread, not a delete request and not cleanup.
OnlyRunsDriveOutputs ==
    [][StopZoneCalled => RunStep]_vars

\* C22: for every zone of the list, the `active` flag is true if and only
\* if the output channel of the zone is energized (was last driven HIGH).
ActiveIffEnergized ==
    \A i \in 1..Len(zones) :
        zobj[zones[i]].active <=> Energized(zobj[zones[i]].gpio_pin)

\* C23: the keys of stop_events are the names of the zones of the list:
\* every zone has a cancellation signal and no other name has one.
SignalsMatchZones ==
    DOMAIN stop_events = {zobj[zones[i]].name : i \in 1..Len(zones)}

\* C24: an execution of run_zone whose zone has been removed from the list
\* before it called start_zone does not energize the output of that zone.
RemovedZoneStaysOff ==
    [][\A r \in DOMAIN runs :
          (/\ r.pc = "start"
           /\ r.zone \notin Range(zones)
           /\ RunStart(r))
          => ~Energized(zobj[r.zone].gpio_pin)']_vars

=============================================================================
